---- MODULE Spec2Model ----
(***************************************************************************)
(* State-machine model of SaveApp's two synchronisation engines:           *)
(*   - SyncService        (electron/services/SyncService.ts), the local    *)
(*                        mirror engine, and                               *)
(*   - GoogleDriveService (electron/services/GoogleDriveService.ts), the   *)
(*                        remote additive engine,                          *)
(* of the backup loop of the window (App.tsx) that drives them, and of     *)
(* the two background services SchedulerService and UsbService.            *)
(* One step of the model is one run-to-completion segment of the           *)
(* JavaScript code: the code between two awaits of an async function, or   *)
(* one whole synchronous method (pause, resume, cancel).                   *)
(***************************************************************************)
EXTENDS Integers, Sequences, FiniteSets, TLC

(***************************************************************************)
(* Bounds of the model.                                                    *)
(***************************************************************************)
NumPaths == 2
NumContents == 3
MaxTime == 2
MaxRuns == 2
MaxRejected == 1
RepeatFiles == 1
MaxUploads == 2
MaxDepth == 2
MaxClock == 24
MaxDue == 2
MinutesPerDay == 2
DaysPerWeek == 2
MaxLate == 1
NumDrives == 2
MaxListings == 4

Paths == 1..NumPaths
Contents == 1..NumContents
Times == 1..MaxTime
UploadIds == 1..MaxUploads
Depths == 1..MaxDepth

(***************************************************************************)
(* Files.  A tree maps every relative path to a file, to a directory or to *)
(* NoFile.  A file                                                         *)
(* is its bytes (content) and its modification time; its size is a         *)
(* function of its bytes, and two different contents can have one size     *)
(* (contents 1 and 2 are both one byte long).  PartialContent is what a    *)
(* write stream leaves behind when the copy fails after the destination    *)
(* was opened for writing.                                                 *)
(***************************************************************************)
NoFile == [content |-> 0, mtime |-> 0]
PartialContent == -1
DirectoryContent == -2
Directory == [content |-> DirectoryContent, mtime |-> 0]
Size(content) == IF content <= 0 THEN 0 ELSE (content + 1) \div 2
Files == [content : Contents, mtime : Times]
Trees == [Paths -> Files \cup {NoFile, Directory}]

\* the paths that hold a file, and the paths that hold a file or a directory
Present(tree) == {p \in Paths : tree[p] \notin {NoFile, Directory}}
Entries(tree) == {p \in Paths : tree[p] # NoFile}

\* a tree without directories, and a tree whose files are all alike
Flat(tree) == \A p \in Paths : tree[p] # Directory
Plain(tree) ==
    \A p \in Present(tree) : tree[p] = [content |-> 1, mtime |-> 1]

FileInfo(tree, p) ==
    [relativePath |-> p, size |-> Size(tree[p].content), mtime |-> tree[p].mtime,
     isDirectory |-> tree[p] = Directory]

RECURSIVE ScanFrom(_, _)
ScanFrom(tree, p) ==
    IF p > NumPaths THEN <<>>
    ELSE (IF tree[p] # NoFile THEN <<FileInfo(tree, p)>> ELSE <<>>)
         \o ScanFrom(tree, p + 1)

\* scanDirectory: the entries of a tree, in directory order
scanDirectory(tree) == ScanFrom(tree, 1)

\* files.filter((f) => !f.isDirectory)
IsFileEntry(f) == ~f.isDirectory
FilesOnly(infos) == SelectSeq(infos, IsFileEntry)

RECURSIVE SumSizes(_, _)
SumSizes(infos, i) ==
    IF i > Len(infos) THEN 0 ELSE infos[i].size + SumSizes(infos, i + 1)

\* Math.round(100 * n / d) for n >= 0, d > 0
RoundPercent(n, d) == (200 * n + d) \div (2 * d)

VARIABLES
    src,              \* the source tree (unchanged by the engines)
    dst,              \* the local destination tree
    now,              \* the wall clock read when a copy is written
    isRunning,        \* SyncService.isRunning
    isPaused,         \* SyncService.isPaused
    isCancelled,      \* SyncService.isCancelled
    currentProgress,  \* SyncService.currentProgress
    pc,               \* where the running sync() is suspended
    sourceFiles,      \* sync(): const sourceFiles
    idx,              \* sync(): position of the for..of loop in sourceFiles
    destFiles,        \* sync(): let destFiles, the scan of the destination
    destFileMap,      \* sync(): const destFileMap
    orphanEntries,    \* sync(): const orphanEntries, the part not yet visited
    filesCreated,     \* sync(): let filesCreated
    filesUpdated,     \* sync(): let filesUpdated
    filesDeleted,     \* sync(): let filesDeleted
    bytesTransferred, \* sync(): let bytesTransferred
    deleteOrphans,    \* sync(): options.deleteOrphans
    results,          \* the SyncResults returned so far, oldest first
    rejected,         \* sync() calls that threw "déjà en cours"
    destExists,       \* whether the destination folder of the source exists
    phases,           \* the phases of the progress events emitted by the run,
                      \* in order, a phase listed once while it lasts
    aliased,          \* whether the error list of currentProgress is the very
                      \* array the last result returned
    runLimit,         \* how many sync() invocations the behaviour may start
    driveIsCancelled,    \* GoogleDriveService.isCancelled
    driveIsPaused,       \* GoogleDriveService.isPaused
    pausePromiseResolve, \* GoogleDriveService.pausePromiseResolve: 0 is null,
                         \* else the uploadSource call whose wait it resolves
    remote,              \* the objects of the source's Drive folder: for every
                         \* relative path the contents of the objects of that name
    uploads,             \* the uploadSource calls made so far and their locals
    uploadCalls,         \* the number of uploadSource calls made
    uploadLimit,         \* how many uploadSource calls the behaviour may make
    layout,              \* for every relative path the depth of its directory
                         \* below the source: 0 for a file of the source folder
                         \* itself, k for a file of the folder 1/../k
    backupFolderId,      \* GoogleDriveService.backupFolderId: 0 is null
    appPc,            \* App.handleStartBackup: where the handler is suspended
    sourceCount,      \* App.handleStartBackup: sourcesToBackup.length
    sourceIdx,        \* App.handleStartBackup: position of the for..of loop
    isCloudBackup,    \* App.handleStartBackup: const isCloudBackup
    isBackingUp,      \* App: state isBackingUp
    appIsPaused,      \* App: state isPaused
    cancelledAt,      \* the position of the loop when cancel was requested
                      \* first: 0 while it has not been requested
    clock,            \* the wall clock of the scheduler, in intervals of 10 s
    schedule,         \* the schedule held by the store (StoreService)
    editing,          \* ScheduleManager: state editingSchedule
    schedulerIsRunning, \* SchedulerService.isRunning
    timer,            \* SchedulerService.timer: the time its interval fires next
    due,              \* the times at which schedule:due was emitted
    isWatching,       \* UsbService.isWatching
    pollingInterval,  \* UsbService.pollingInterval: 0 is null, else a timer
    timers,           \* the interval timers created and not cleared
    previousDrives,   \* UsbService.previousDrives: the letters it holds
    drives,           \* the letters of the drives of the machine
    pending,          \* the listDrives calls not settled yet, per caller
    listings,         \* the listDrives calls settled, in order: the caller
                      \* and whether a list was returned
    events            \* the drive:connected and drive:disconnected events
                      \* emitted, poll by poll

localVars ==
    <<src, dst, now, isRunning, isPaused, isCancelled, currentProgress, pc,
      sourceFiles, idx, destFiles, destFileMap, orphanEntries, filesCreated,
      filesUpdated,
      filesDeleted, bytesTransferred, deleteOrphans, results, rejected,
      destExists, phases, aliased, runLimit>>

runVars ==
    <<pc, sourceFiles, idx, destFiles, destFileMap, orphanEntries, filesCreated,
      filesUpdated, filesDeleted, bytesTransferred, deleteOrphans>>

driveVars ==
    <<driveIsCancelled, driveIsPaused, pausePromiseResolve, remote, uploads,
      uploadCalls, uploadLimit, layout, backupFolderId>>

appVars ==
    <<appPc, sourceCount, sourceIdx, isCloudBackup, isBackingUp, appIsPaused,
      cancelledAt>>

schedulerVars == <<clock, schedule, editing, schedulerIsRunning, timer, due>>

engineVars == <<localVars, driveVars, appVars>>
usbVars ==
    <<isWatching, pollingInterval, timers, previousDrives, drives, pending,
      listings, events>>
serviceVars == <<schedulerVars, usbVars>>

\* what the methods of SyncService and of GoogleDriveService leave alone
besidesLocal == <<driveVars, appVars, serviceVars>>
besidesDrive == <<localVars, appVars, serviceVars>>

vars == <<engineVars, serviceVars>>

(***************************************************************************)
(* SyncService: progress aggregator.                                       *)
(***************************************************************************)
InitialProgress ==
    [phase |-> "scanning", totalFiles |-> 0, processedFiles |-> 0,
     totalBytes |-> 0, copiedBytes |-> 0, currentFile |-> 0, percent |-> 0,
     errors |-> <<>>]

\* updateProgress: { ...this.currentProgress, ...partial }
updateProgress(cur, partial) ==
    [f \in DOMAIN cur |-> IF f \in DOMAIN partial THEN partial[f] ELSE cur[f]]

\* an aggregator that drops the error
addError_Dropped(cur, file, code) == cur

\* addError: this.currentProgress.errors.push({ file, error, code })
addError(cur, file, code) ==
    [cur EXCEPT !.errors = Append(@, [file |-> file, code |-> code])]

\* the ratio of the files still to be processed
calculatePercent_Remaining(cur) ==
    IF cur.totalFiles = 0 THEN 0
    ELSE RoundPercent(cur.totalFiles - cur.processedFiles, cur.totalFiles)

\* lines 303-309
calculatePercent(cur) ==
    IF cur.totalFiles = 0 THEN 0
    ELSE RoundPercent(cur.processedFiles, cur.totalFiles)

\* lines 207-212: destFileMap.delete, then processedFiles + 1 with the percent
\* computed by calculatePercent() before the update is applied
markProcessed(cur) ==
    updateProgress(cur, [processedFiles |-> cur.processedFiles + 1,
                         percent |-> calculatePercent(cur)])

EmptyTree == [p \in Paths |-> NoFile]

\* The local engine before any sync(): the field initialisers of the class
SyncServiceIdle ==
    /\ now = 1
    /\ isRunning = FALSE
    /\ isPaused = FALSE
    /\ isCancelled = FALSE
    /\ currentProgress = InitialProgress
    /\ pc = "idle"
    /\ sourceFiles = <<>>
    /\ destFiles = <<>>
    /\ idx = 1
    /\ destFileMap = [p \in {} |-> FileInfo(EmptyTree, p)]
    /\ orphanEntries = <<>>
    /\ filesCreated = 0
    /\ filesUpdated = 0
    /\ filesDeleted = 0
    /\ bytesTransferred = 0
    /\ deleteOrphans = TRUE
    /\ results = <<>>
    /\ rejected = 0
    /\ phases = <<>>
    /\ aliased = FALSE

(***************************************************************************)
(* GoogleDriveService: state.                                              *)
(***************************************************************************)
NoRemoteMap == [p \in {} |-> [id |-> 0, md5 |-> 0]]

\* an uploadSource call that has not been made yet; percent is the percent of
\* the progress event the call emitted last
\* folderIdCache records a remote folder by the names on its way down from the
\* folder of the source, which is <<>>; NoFolder stands for a missing entry.
\* rootQueried tells whether the call asked Drive for the backup folder,
\* lookups lists for every path prefix the outcomes of its ensureSubFolder
\* calls, part is the prefix whose ensureSubFolder call is awaited
NoFolder == <<0>>
NoUpload ==
    [pc |-> "idle", files |-> <<>>, idx |-> 1, remoteFilesMap |-> NoRemoteMap,
     filesUploaded |-> 0, filesSkipped |-> 0, bytesTransferred |-> 0,
     errors |-> <<>>, success |-> FALSE, released |-> FALSE, percent |-> 0,
     rootQueried |-> FALSE, folderIdCache |-> [k \in Depths |-> NoFolder],
     lookups |-> [k \in Depths |-> <<>>], part |-> 0, parentFolderId |-> <<>>]

FlatLayout == [p \in Paths |-> 0]

NoObjects == [p \in Paths |-> <<>>]

\* The remote engine before any uploadSource(): the field initialisers
GoogleDriveServiceIdle ==
    /\ driveIsCancelled = FALSE
    /\ driveIsPaused = FALSE
    /\ pausePromiseResolve = 0
    /\ uploads = [r \in UploadIds |-> NoUpload]
    /\ uploadCalls = 0
    /\ backupFolderId = 0

\* The interface before any backup is started
AppIdle ==
    /\ appPc = "idle"
    /\ sourceCount = 0
    /\ sourceIdx = 0
    /\ isCloudBackup = FALSE
    /\ isBackingUp = FALSE
    /\ appIsPaused = FALSE
    /\ cancelledAt = 0

\* SchedulerService before start(), with no schedule in the store that could
\* fall due
NoRun == -1
NoTimer == -1
NoEdit == [enabled |-> FALSE, time |-> 0, frequency |-> "none", days |-> {},
           lastRun |-> NoRun]
SchedulerIdle ==
    /\ clock = 0
    /\ editing = NoEdit
    /\ schedulerIsRunning = FALSE
    /\ timer = NoTimer
    /\ due = <<>>

\* UsbService before startWatching(): the field initialisers of lines 26-28
UsbIdle ==
    /\ isWatching = FALSE
    /\ pollingInterval = 0
    /\ timers = {}
    /\ previousDrives = {}
    /\ pending = [init |-> 0, poll |-> 0]
    /\ listings = <<>>
    /\ events = <<>>

ServicesIdle ==
    /\ SchedulerIdle
    /\ schedule = NoEdit
    /\ UsbIdle
    /\ drives = {}

\* Any source and any destination for a single run; consecutive runs are
\* explored from a destination that starts empty, with at most RepeatFiles
\* entries in the source; directories are explored with files that are all
\* alike.
Init ==
    /\ SyncServiceIdle
    /\ src \in Trees
    /\ runLimit \in 1..MaxRuns
    /\ runLimit > 1 => Cardinality(Entries(src)) <= RepeatFiles
    /\ dst \in (IF runLimit = 1 THEN Trees ELSE {EmptyTree})
    /\ (Flat(src) /\ Flat(dst)) \/ (Plain(src) /\ Plain(dst))
    /\ destExists \in (IF Entries(dst) = {} THEN BOOLEAN ELSE {TRUE})
    /\ GoogleDriveServiceIdle
    /\ remote = NoObjects
    /\ uploadLimit = 0
    /\ layout = FlatLayout
    /\ AppIdle
    /\ ServicesIdle

(***************************************************************************)
(* SyncService.sync                                                        *)
(***************************************************************************)
\* the guard of line 75 left out
AlreadyRunning_Never(running) == FALSE

\* line 75: if (this.isRunning) throw
AlreadyRunning(running) == running

NoMap == [p \in {} |-> FileInfo(EmptyTree, p)]

ResetLocals ==
    /\ sourceFiles' = <<>>
    /\ destFiles' = <<>>
    /\ idx' = 1
    /\ destFileMap' = NoMap
    /\ orphanEntries' = <<>>
    /\ filesCreated' = 0
    /\ filesUpdated' = 0
    /\ filesDeleted' = 0
    /\ bytesTransferred' = 0

\* a result that leaves the errors out
SyncResult_NoErrors(ok, deleted, errs) ==
    [success |-> ok, filesCreated |-> filesCreated, filesUpdated |-> filesUpdated,
     filesDeleted |-> deleted, bytesTransferred |-> bytesTransferred,
     errors |-> <<>>, cancelled |-> isCancelled, deleteOrphans |-> deleteOrphans]

\* lines 238-246 and 250-258: the object returned; cancelled and deleteOrphans
\* record the circumstances of the run for the properties below
SyncResult(ok, deleted, errs) ==
    [success |-> ok, filesCreated |-> filesCreated, filesUpdated |-> filesUpdated,
     filesDeleted |-> deleted, bytesTransferred |-> bytesTransferred,
     errors |-> errs, cancelled |-> isCancelled, deleteOrphans |-> deleteOrphans]

\* lines 303-306: a progress event leaves with its phase
EmitPhase(log, phase) ==
    IF log # <<>> /\ log[Len(log)] = phase THEN log ELSE Append(log, phase)

\* line 245: errors: this.currentProgress.errors; the result holds the array
\* itself, so what is pushed on the array shows in the result
Shared(res, alias, errs) ==
    IF alias /\ res # <<>> THEN [res EXCEPT ![Len(res)].errors = errs] ELSE res

\* a finally block that leaves the flag as it is
Finally_Skipped == UNCHANGED isRunning

\* lines 259-261: finally { this.isRunning = false }
Finally == isRunning' = FALSE

\* lines 234-246 and 259-261: done is emitted, the date of the backup stored
\* and the result returned; if the store throws, the catch block of lines
\* 247-258 runs; in the finally block isRunning is cleared
Finish(prog, deleted, log) ==
    LET final == updateProgress(prog, [phase |-> "done", percent |-> 100])
        done == EmitPhase(log, "done")
    IN \E stored \in BOOLEAN :
        /\ currentProgress' =
               IF stored THEN final ELSE updateProgress(final, [phase |-> "error"])
        /\ phases' = IF stored THEN done ELSE EmitPhase(done, "error")
        /\ results' = Append(Shared(results, aliased, final.errors),
               IF stored
               THEN SyncResult(Len(final.errors) = 0, deleted, final.errors)
               ELSE SyncResult(FALSE, deleted, <<[file |-> 0, code |-> "FATAL"]>>))
        /\ aliased' = stored
        /\ Finally
        /\ pc' = "idle"
        /\ ResetLocals

\* lines 247-261: a thrown error ends the run with one FATAL error
Fail(prog, log) ==
    /\ currentProgress' = updateProgress(prog, [phase |-> "error"])
    /\ phases' = EmitPhase(log, "error")
    /\ results' = Append(Shared(results, aliased, prog.errors),
           SyncResult(FALSE, filesDeleted, <<[file |-> 0, code |-> "FATAL"]>>))
    /\ aliased' = FALSE
    /\ Finally
    /\ pc' = "idle"
    /\ ResetLocals

\* the flags of the previous run left as they are
ResetFlags_Kept == UNCHANGED <<isPaused, isCancelled>>

\* lines 80-81
ResetFlags ==
    /\ isPaused' = FALSE
    /\ isCancelled' = FALSE

\* the error list of the previous run emptied and used again
NewErrorList_Reused(alias) == alias

\* line 90: errors: [], an array no result holds
NewErrorList(alias) == FALSE

\* the progress of the previous run reset except for its error list
ResetProgress_KeepErrors(cur) == [InitialProgress EXCEPT !.errors = cur.errors]

\* lines 82-91: this.currentProgress = { phase: 'scanning', ..., errors: [] }
ResetProgress(cur) == InitialProgress

\* lines 70-74: the arguments a caller can pass as options: none, or an object
\* with deleteOrphans
OptionArgs == {<<>>} \cup {<<b>> : b \in BOOLEAN}

\* line 73: options: SyncOptions = { deleteOrphans: true }
DefaultOptions == <<TRUE>>

\* lines 70-101: the call either throws at once or starts the scan of the source
SyncCall(options) ==
    /\ IF AlreadyRunning(isRunning)
       THEN /\ rejected < MaxRejected
            /\ rejected' = rejected + 1
            /\ UNCHANGED <<src, dst, now, isRunning, isPaused, isCancelled,
                           currentProgress, runVars, results, destExists, phases,
                           aliased, runLimit>>
       ELSE /\ Len(results) + (IF isRunning THEN 1 ELSE 0) < runLimit
            /\ isRunning' = TRUE
            /\ ResetFlags
            /\ currentProgress' =
                   updateProgress(ResetProgress(currentProgress),
                                  [phase |-> "scanning", currentFile |-> 0])
            /\ aliased' = NewErrorList(aliased)
            /\ results' = Shared(results, aliased',
                                 ResetProgress(currentProgress).errors)
            /\ phases' = <<"scanning">>
            /\ ResetLocals
            /\ deleteOrphans' = (IF options = <<>> THEN DefaultOptions ELSE options)[1]
            /\ pc' = "scanning"
            /\ UNCHANGED <<src, dst, now, rejected, destExists, runLimit>>

\* sync() called by some caller, with any options
Sync(options) ==
    /\ UNCHANGED besidesLocal
    /\ SyncCall(options)

\* lines 102-121: the source scan returns; totals; the destination folder is
\* scanned if it exists and created otherwise (mkdirSync may throw)
ScanSourceDone ==
    /\ UNCHANGED besidesLocal
    /\ pc = "scanning"
    /\ LET files == scanDirectory(src)
           sourceFilesOnly == FilesOnly(files)
           p1 == updateProgress(currentProgress,
                     [totalFiles |-> Len(sourceFilesOnly),
                      totalBytes |-> SumSizes(sourceFilesOnly, 1)])
           p2 == updateProgress(p1, [phase |-> "comparing"])
       IN \/ /\ sourceFiles' = files
             /\ currentProgress' = p2
             /\ phases' = EmitPhase(phases, "comparing")
             /\ pc' = "comparing"
             /\ destExists' = TRUE
             /\ UNCHANGED <<isRunning, results, aliased, idx, destFiles, destFileMap,
                            orphanEntries, filesCreated, filesUpdated, filesDeleted,
                            bytesTransferred>>
          \/ /\ ~destExists
             /\ Fail(p2, EmitPhase(phases, "comparing"))
             /\ UNCHANGED destExists
    /\ UNCHANGED <<src, dst, now, isPaused, isCancelled, deleteOrphans, rejected,
                   runLimit>>

\* lines 123-130: the destination lookup is built and the copying phase entered
ScanDestDone ==
    /\ UNCHANGED besidesLocal
    /\ pc = "comparing"
    /\ destFiles' = scanDirectory(dst)
    /\ destFileMap' = [p \in Entries(dst) |-> FileInfo(dst, p)]
    /\ currentProgress' = updateProgress(currentProgress, [phase |-> "copying"])
    /\ phases' = EmitPhase(phases, "copying")
    /\ pc' = "top"
    /\ UNCHANGED <<src, dst, now, isRunning, isPaused, isCancelled, sourceFiles,
                   idx, orphanEntries, filesCreated, filesUpdated, filesDeleted,
                   bytesTransferred, deleteOrphans, results, rejected, destExists,
                   aliased, runLimit>>

\* the diff rule without its size comparison
needsCopy_IgnoreSize(sourceFile, map) ==
    \/ sourceFile.relativePath \notin DOMAIN map
    \/ sourceFile.mtime > map[sourceFile.relativePath].mtime

\* the diff rule taking a counterpart of the same age for an older one
needsCopy_SameAge(sourceFile, map) ==
    \/ sourceFile.relativePath \notin DOMAIN map
    \/ sourceFile.mtime >= map[sourceFile.relativePath].mtime
    \/ sourceFile.size # map[sourceFile.relativePath].size

\* lines 155-159
needsCopy(sourceFile, map) ==
    \/ sourceFile.relativePath \notin DOMAIN map
    \/ sourceFile.mtime > map[sourceFile.relativePath].mtime
    \/ sourceFile.size # map[sourceFile.relativePath].size

\* a delete that leaves the entry in the lookup
MapDelete_Keep(map, p) == map

\* line 208: destFileMap.delete(relativePath)
MapDelete(map, p) == [q \in DOMAIN map \ {p} |-> map[q]]

RECURSIVE PathSeq(_, _)
PathSeq(S, p) ==
    IF p > NumPaths THEN <<>>
    ELSE (IF p \in S THEN <<p>> ELSE <<>>) \o PathSeq(S, p + 1)

\* lines 219-221: Array.from(destFileMap.entries()), the directories passed
\* over by continue
OrphansOf(map) == PathSeq({p \in DOMAIN map : ~map[p].isDirectory}, 1)

\* lines 143-159 and 199-212: the part of one loop iteration that runs without
\* suspending: a directory is created if the destination lacks it (mkdirSync
\* may throw); a file either needs a copy and isFileLocked is awaited, or it
\* is counted as processed
ProcessFile ==
    LET f == sourceFiles[idx]
        p == f.relativePath
        p1 == updateProgress(currentProgress, [currentFile |-> p])
        b == bytesTransferred + f.size
    IN IF f.isDirectory
       THEN \/ /\ dst' = IF dst[p] = NoFile THEN [dst EXCEPT ![p] = Directory] ELSE dst
               /\ idx' = idx + 1
               /\ pc' = "top"
               /\ UNCHANGED <<isRunning, currentProgress, results, phases, aliased,
                              sourceFiles, destFiles, destFileMap, orphanEntries,
                              filesCreated, filesUpdated, filesDeleted,
                              bytesTransferred>>
            \/ /\ dst[p] = NoFile
               /\ Fail(currentProgress, phases)
               /\ UNCHANGED dst
       ELSE /\ IF needsCopy(f, destFileMap)
               THEN /\ currentProgress' = p1
                    /\ pc' = "locking"
                    /\ UNCHANGED <<idx, destFileMap, bytesTransferred>>
               ELSE /\ bytesTransferred' = b
                    /\ destFileMap' = MapDelete(destFileMap, p)
                    /\ currentProgress' =
                           markProcessed(updateProgress(p1, [copiedBytes |-> b]))
                    /\ idx' = idx + 1
                    /\ pc' = "top"
            /\ UNCHANGED <<dst, isRunning, results, phases, aliased, sourceFiles,
                           destFiles, orphanEntries, filesCreated, filesUpdated,
                           filesDeleted>>

\* line 216 with the option ignored
entersOrphanPhase_Always(option, cancelled) == ~cancelled

\* line 216: if (options.deleteOrphans && !this.isCancelled)
entersOrphanPhase(option, cancelled) == option /\ ~cancelled

\* lines 215-246: after the loop, the orphan phase is entered or the run ends
ExitLoop ==
    IF entersOrphanPhase(deleteOrphans, isCancelled)
    THEN LET p1 == updateProgress(currentProgress, [phase |-> "deleting"])
             orphans == OrphansOf(destFileMap)
         IN IF orphans = <<>>
            THEN Finish(p1, filesDeleted, EmitPhase(phases, "deleting"))
            ELSE /\ currentProgress' = p1
                 /\ phases' = EmitPhase(phases, "deleting")
                 /\ orphanEntries' = orphans
                 /\ pc' = "deleting"
                 /\ UNCHANGED <<isRunning, results, aliased, sourceFiles, destFiles,
                                idx, destFileMap, filesCreated, filesUpdated,
                                filesDeleted, bytesTransferred>>
    ELSE Finish(currentProgress, filesDeleted, phases)

\* lines 132-141: head of the for..of loop
LoopTop ==
    /\ UNCHANGED besidesLocal
    /\ pc = "top"
    /\ IF idx > Len(sourceFiles) \/ isCancelled
       THEN ExitLoop /\ UNCHANGED dst
       ELSE IF isPaused
            THEN /\ pc' = "wait"
                 /\ UNCHANGED <<dst, isRunning, currentProgress, results, phases,
                                aliased, sourceFiles, destFiles, idx, destFileMap,
                                orphanEntries, filesCreated, filesUpdated,
                                filesDeleted, bytesTransferred>>
            ELSE ProcessFile
    /\ UNCHANGED <<src, now, isPaused, isCancelled, deleteOrphans, rejected,
                   destExists, runLimit>>

\* lines 139-141: sleep(100) returns and the while condition is false
SleepWake ==
    /\ UNCHANGED besidesLocal
    /\ pc = "wait"
    /\ ~(isPaused /\ ~isCancelled)
    /\ ProcessFile
    /\ UNCHANGED <<src, now, isPaused, isCancelled, deleteOrphans, rejected,
                   destExists, runLimit>>

\* lines 164-181: isFileLocked returns; a locked file is reported and the
\* iteration left by continue, else copyFileWithStream is started
LockChecked ==
    /\ UNCHANGED besidesLocal
    /\ pc = "locking"
    /\ \E locked \in BOOLEAN :
        LET f == sourceFiles[idx]
            b == bytesTransferred + f.size
        IN IF locked
           THEN /\ currentProgress' =
                      updateProgress(addError(currentProgress, f.relativePath, "EBUSY"),
                                     [copiedBytes |-> b])
                /\ bytesTransferred' = b
                /\ idx' = idx + 1
                /\ pc' = "top"
           ELSE /\ pc' = "copying"
                /\ UNCHANGED <<currentProgress, bytesTransferred, idx>>
    /\ results' = Shared(results, aliased, currentProgress'.errors)
    /\ UNCHANGED <<src, dst, now, isRunning, isPaused, isCancelled, phases, aliased,
                   sourceFiles, destFiles, destFileMap, orphanEntries, filesCreated,
                   filesUpdated, filesDeleted, deleteOrphans, rejected, destExists, runLimit>>

\* FileUtils.copyFileWithStream: what the destination holds once the promise
\* settles.  The copy is written at clock time t.
CopyEffect(tree, p, content, t) ==
    [tree EXCEPT ![p] = [content |-> content, mtime |-> t]]

\* lines 176-212: the copy settles; a directory in the place of the copy
\* makes the write stream fail
CopyDone ==
    /\ UNCHANGED besidesLocal
    /\ pc = "copying"
    /\ \E outcome \in {"ok", "failed", "partial"} : \E t \in now..MaxTime :
        LET f == sourceFiles[idx]
            p == f.relativePath
            b == bytesTransferred + f.size
            copied == updateProgress(currentProgress, [copiedBytes |-> b])
            failed == updateProgress(addError(currentProgress, p, "EIO"),
                                     [copiedBytes |-> b])
        IN /\ dst[p] = Directory => outcome = "failed"
           /\ bytesTransferred' = b
           /\ destFileMap' = MapDelete(destFileMap, p)
           /\ idx' = idx + 1
           /\ pc' = "top"
           /\ IF outcome = "ok"
              THEN /\ dst' = CopyEffect(dst, p, src[p].content, t)
                   /\ now' = t
                   /\ currentProgress' = markProcessed(copied)
                   /\ filesUpdated' =
                          IF p \in DOMAIN destFileMap THEN filesUpdated + 1 ELSE filesUpdated
                   /\ filesCreated' =
                          IF p \in DOMAIN destFileMap THEN filesCreated ELSE filesCreated + 1
              ELSE /\ IF outcome = "partial"
                      THEN dst' = CopyEffect(dst, p, PartialContent, t) /\ now' = t
                      ELSE UNCHANGED <<dst, now>>
                   /\ currentProgress' = markProcessed(failed)
                   /\ UNCHANGED <<filesCreated, filesUpdated>>
    /\ results' = Shared(results, aliased, currentProgress'.errors)
    /\ UNCHANGED <<src, isRunning, isPaused, isCancelled, phases, aliased, sourceFiles,
                   destFiles, orphanEntries, filesDeleted, deleteOrphans, rejected,
                   destExists, runLimit>>

\* lines 220-231: fs.promises.unlink of one orphan settles
UnlinkDone ==
    /\ UNCHANGED besidesLocal
    /\ pc = "deleting"
    /\ \E ok \in BOOLEAN :
        LET p == Head(orphanEntries)
            rest == Tail(orphanEntries)
            deleted == IF ok THEN filesDeleted + 1 ELSE filesDeleted
            prog == IF ok THEN currentProgress
                    ELSE addError(currentProgress, p, "EPERM")
        IN /\ dst' = IF ok THEN [dst EXCEPT ![p] = NoFile] ELSE dst
           /\ IF rest = <<>>
              THEN Finish(prog, deleted, phases)
              ELSE /\ currentProgress' = prog
                   /\ results' = Shared(results, aliased, prog.errors)
                   /\ filesDeleted' = deleted
                   /\ orphanEntries' = rest
                   /\ UNCHANGED <<isRunning, pc, phases, aliased, sourceFiles,
                                  destFiles, idx, destFileMap, filesCreated,
                                  filesUpdated, bytesTransferred>>
    /\ UNCHANGED <<src, now, isPaused, isCancelled, deleteOrphans, rejected, destExists, runLimit>>

\* lines 267-269
PauseCall ==
    /\ isPaused' = TRUE
    /\ UNCHANGED <<src, dst, now, isRunning, isCancelled, currentProgress,
                   runVars, results, rejected, destExists, phases, aliased,
                   runLimit>>

\* lines 274-276
ResumeCall ==
    /\ isPaused' = FALSE
    /\ UNCHANGED <<src, dst, now, isRunning, isCancelled, currentProgress,
                   runVars, results, rejected, destExists, phases, aliased,
                   runLimit>>

\* lines 281-284
CancelCall ==
    /\ isCancelled' = TRUE
    /\ isPaused' = FALSE
    /\ UNCHANGED <<src, dst, now, isRunning, currentProgress, runVars, results,
                   rejected, destExists, phases, aliased, runLimit>>

\* the three controls called by some caller
Pause == UNCHANGED besidesLocal /\ PauseCall
Resume == UNCHANGED besidesLocal /\ ResumeCall
Cancel == UNCHANGED besidesLocal /\ CancelCall

Next ==
    \/ \E options \in OptionArgs : Sync(options)
    \/ ScanSourceDone
    \/ ScanDestDone
    \/ LoopTop
    \/ SleepWake
    \/ LockChecked
    \/ CopyDone
    \/ UnlinkDone
    \/ Pause
    \/ Resume
    \/ Cancel

Spec == Init /\ [][Next]_vars

(***************************************************************************)
(* GoogleDriveService.uploadSource                                         *)
(***************************************************************************)
Active(r) == uploads[r].pc \notin {"idle", "done"}

\* lines 789-796 and the early returns of lines 610-660: the call returns
EndUpload(u, ok, errs) ==
    [u EXCEPT !.pc = "done", !.success = ok, !.errors = errs]

\* an early return that reports the failure twice
StructuralError_Twice == <<[file |-> 0], [file |-> 0]>>

\* the run-wide error of an early return
StructuralError == <<[file |-> 0]>>

\* lines 360-375 and 637-650: ensureBackupFolder returns the identifier the
\* service holds, and ensureSubFolder of the source is awaited; with none it
\* asks Drive for the folder
BackupFolderAsked(u, cached) ==
    IF cached # 0 THEN [u EXCEPT !.pc = "setup"]
    ELSE [u EXCEPT !.pc = "root", !.rootQueried = TRUE]

\* lines 599-637: the flags are reset, then the call returns at once when the
\* user is not authenticated or the client cannot be initialised, and calls
\* ensureBackupFolder otherwise
UploadSourceCall ==
    /\ uploadCalls < uploadLimit
    /\ uploadCalls' = uploadCalls + 1
    /\ driveIsCancelled' = FALSE
    /\ driveIsPaused' = FALSE
    /\ \E authenticated \in BOOLEAN :
          uploads' = [uploads EXCEPT ![uploadCalls + 1] =
                        IF authenticated THEN BackupFolderAsked(@, backupFolderId)
                        ELSE EndUpload(@, FALSE, StructuralError)]
    /\ UNCHANGED <<pausePromiseResolve, remote, uploadLimit, layout, backupFolderId>>

\* uploadSource() called by some caller
UploadSource == UploadSourceCall /\ UNCHANGED besidesDrive

\* lines 369-399: the listing or the creation of the backup folder settles;
\* its identifier is kept in the service, and without one the call returns
RootDone(r) ==
    /\ uploads[r].pc = "root"
    /\ \E ok \in BOOLEAN :
          /\ uploads' = [uploads EXCEPT ![r] =
                            IF ok THEN [@ EXCEPT !.pc = "setup"]
                            ELSE EndUpload(@, FALSE, StructuralError)]
          /\ backupFolderId' = IF ok THEN 1 ELSE backupFolderId
    /\ UNCHANGED <<driveIsCancelled, driveIsPaused, pausePromiseResolve, remote,
                   uploadCalls, uploadLimit, layout>>
    /\ UNCHANGED besidesDrive

\* lines 650-675: ensureSubFolder of the source returns; without a
\* folder the call returns, else scanning is emitted with percent 0 and the
\* scan of the source awaited
SetupDone(r) ==
    /\ uploads[r].pc = "setup"
    /\ \E folders \in BOOLEAN :
          uploads' = [uploads EXCEPT ![r] =
                        IF folders THEN [@ EXCEPT !.pc = "scan", !.percent = 0]
                        ELSE EndUpload(@, FALSE, StructuralError)]
    /\ UNCHANGED <<driveIsCancelled, driveIsPaused, pausePromiseResolve, remote,
                   uploadCalls, uploadLimit, layout, backupFolderId>>
    /\ UNCHANGED besidesDrive

\* lines 677-695: the scan returns, uploading is emitted with percent 0 and
\* getRemoteFilesMap is awaited
ScanDone(r) ==
    /\ uploads[r].pc = "scan"
    /\ uploads' = [uploads EXCEPT ![r].pc = "listing",
                                  ![r].files = FilesOnly(scanDirectory(src)),
                                  ![r].percent = 0]
    /\ UNCHANGED <<driveIsCancelled, driveIsPaused, pausePromiseResolve, remote,
                   uploadCalls, uploadLimit, layout, backupFolderId>>
    /\ UNCHANGED besidesDrive

\* getRemoteFilesMap (lines 524-554): one handle per relative path that has an
\* object, whichever object of that name the listing yields last; a failed
\* listing is logged and yields the empty map
getRemoteFilesMap(store) ==
    LET named == {p \in Paths : store[p] # <<>>}
        picks == {c \in [named -> 1..(1 + MaxUploads)] :
                     \A p \in named : c[p] <= Len(store[p])}
    IN {[p \in named |-> [id |-> c[p], md5 |-> store[p][c[p]]]] : c \in picks}
       \cup {NoRemoteMap}

\* lines 693-697: the remote index arrives and the loop is entered
ListDone(r) ==
    /\ uploads[r].pc = "listing"
    /\ \E map \in getRemoteFilesMap(remote) :
          uploads' = [uploads EXCEPT ![r].pc = "top", ![r].remoteFilesMap = map]
    /\ UNCHANGED <<driveIsCancelled, driveIsPaused, pausePromiseResolve, remote,
                   uploadCalls, uploadLimit, layout, backupFolderId>>
    /\ UNCHANGED besidesDrive

\* lines 778-796: done is emitted with percent 100 and the result returned
FinishUpload(u) ==
    [EndUpload(u, Len(u.errors) = 0, u.errors) EXCEPT !.percent = 100]

\* lines 729-738: the event emitted when a file is taken up carries the ratio
\* of uploaded files
TakeUp(u) ==
    [u EXCEPT !.pc = "uploading",
              !.percent = RoundPercent(u.filesUploaded, Len(u.files))]

\* lines 748-757: the event emitted by the upload callback carries the ratio
\* of transferred bytes
ChunkPercent(u, bytes) ==
    RoundPercent(u.bytesTransferred + bytes, SumSizes(u.files, 1))

\* a cache that forgets what it is given
CacheSet_Forget(cache, k, id) == cache

\* lines 720-722: folderIdCache.set(currentPath, folderId)
CacheSet(cache, k, id) == [cache EXCEPT ![k] = id]

\* lines 718 and 726: folderIdCache.get(path) || sourceFolderId
CacheGet(cache, k) == IF k = 0 \/ cache[k] = NoFolder THEN <<>> ELSE cache[k]

\* lines 705-738: the parent folder of the file at idx is determined: from the
\* given prefix on, the first prefix of its directory the cache lacks is
\* handed to ensureSubFolder, which is awaited; with none left the file is
\* taken up under the folder cached for its directory, or under the folder of
\* the source
ResolveFrom(u, first) ==
    LET depth == layout[u.files[u.idx].relativePath]
        missing == {k \in first..depth : u.folderIdCache[k] = NoFolder}
    IN IF missing = {}
       THEN TakeUp([u EXCEPT !.part = 0,
                             !.parentFolderId = CacheGet(u.folderIdCache, depth)])
       ELSE [u EXCEPT !.pc = "folders",
                      !.part = CHOOSE k \in missing : \A j \in missing : k <= j]

\* lines 717-723: ensureSubFolder (405-435) returns the folder of that name
\* under the parent, found or created, or null; only an identifier is cached;
\* the loop over the parts goes on
FolderDone(r) ==
    /\ uploads[r].pc = "folders"
    /\ \E ok \in BOOLEAN :
        LET u == uploads[r]
            k == u.part
            folderId == Append(CacheGet(u.folderIdCache, k - 1), k)
            called == [u EXCEPT !.lookups[k] = Append(@, ok)]
            cached == IF ok
                      THEN [called EXCEPT
                               !.folderIdCache = CacheSet(u.folderIdCache, k, folderId)]
                      ELSE called
        IN uploads' = [uploads EXCEPT ![r] = ResolveFrom(cached, k + 1)]
    /\ UNCHANGED <<driveIsCancelled, driveIsPaused, pausePromiseResolve, remote,
                   uploadCalls, uploadLimit, layout, backupFolderId>>
    /\ UNCHANGED besidesDrive

\* lines 697-703: loop head: the cancel check, then waitIfPaused (588-594),
\* which returns at once when not paused and else registers its resolver;
\* when it returns at once the parent folder of the file is determined
Top(r) ==
    /\ uploads[r].pc = "top"
    /\ LET u == uploads[r] IN
       IF u.idx > Len(u.files) \/ driveIsCancelled
       THEN /\ uploads' = [uploads EXCEPT ![r] = FinishUpload(u)]
            /\ UNCHANGED pausePromiseResolve
       ELSE IF ~driveIsPaused
            THEN /\ uploads' = [uploads EXCEPT ![r] = ResolveFrom(u, 1)]
                 /\ UNCHANGED pausePromiseResolve
            ELSE /\ uploads' = [uploads EXCEPT ![r].pc = "waiting",
                                               ![r].released = FALSE]
                 /\ pausePromiseResolve' = r
    /\ UNCHANGED <<driveIsCancelled, driveIsPaused, remote, uploadCalls,
                   uploadLimit, layout, backupFolderId>>
    /\ UNCHANGED besidesDrive

\* lines 702-703: the pause promise was resolved; the cancel check, then the
\* parent folder of the file is determined
Wake(r) ==
    /\ uploads[r].pc = "waiting"
    /\ uploads[r].released
    /\ uploads' = [uploads EXCEPT ![r] =
                      IF driveIsCancelled THEN FinishUpload(@)
                      ELSE ResolveFrom(@, 1)]
    /\ UNCHANGED <<driveIsCancelled, driveIsPaused, pausePromiseResolve, remote,
                   uploadCalls, uploadLimit, layout, backupFolderId>>
    /\ UNCHANGED besidesDrive

\* an update that adds an object instead of replacing the one it was given
RemoteUpdate_Append(store, p, id, content) == [store EXCEPT ![p] = Append(@, content)]

\* drive.files.update (lines 470-479): the object keeps its place, new bytes
RemoteUpdate(store, p, id, content) == [store EXCEPT ![p][id] = content]

\* a creation that replaces the folder's content by the new object
RemoteCreate_Mirror(store, p, content) ==
    [q \in Paths |-> IF q = p THEN <<content>> ELSE <<>>]

\* drive.files.create (lines 481-493): one more object of that name
RemoteCreate(store, p, content) == [store EXCEPT ![p] = Append(@, content)]

\* a folding that counts a skipped file as uploaded too
FoldResult_SkippedCountedTwice(u, f, result) ==
    IF result = "failed"
    THEN [u EXCEPT !.errors = Append(@, [file |-> f.relativePath])]
    ELSE [u EXCEPT !.filesSkipped = IF result = "skipped" THEN @ + 1 ELSE @,
                   !.filesUploaded = @ + 1,
                   !.bytesTransferred = @ + f.size]

\* lines 763-775: the result of uploadFile is folded into the counters
FoldResult(u, f, result) ==
    IF result = "failed"
    THEN [u EXCEPT !.errors = Append(@, [file |-> f.relativePath])]
    ELSE [u EXCEPT !.filesSkipped = IF result = "skipped" THEN @ + 1 ELSE @,
                   !.filesUploaded = IF result = "uploaded" THEN @ + 1 ELSE @,
                   !.bytesTransferred = @ + f.size]

\* uploadFile (lines 440-506) returns and its result is folded in (763-775):
\* an equal digest skips the file, else the object is replaced or created;
\* an upload that fails is recorded and the loop goes on.  The callback of a
\* transfer has reported the whole file when the transfer succeeds, and may
\* have done so when it fails.
UploadDone(r) ==
    /\ uploads[r].pc = "uploading"
    /\ LET u == uploads[r]
           f == u.files[u.idx]
           p == f.relativePath
           known == p \in DOMAIN u.remoteFilesMap
           next == [u EXCEPT !.pc = "top", !.idx = u.idx + 1]
           sent == [next EXCEPT !.percent = ChunkPercent(u, f.size)]
       IN \E ok \in BOOLEAN :
            IF ~ok
            THEN /\ \E reported \in BOOLEAN :
                      uploads' = [uploads EXCEPT ![r] =
                          FoldResult(IF reported THEN sent ELSE next, f, "failed")]
                 /\ UNCHANGED remote
            ELSE IF known /\ u.remoteFilesMap[p].md5 = src[p].content
            THEN /\ uploads' = [uploads EXCEPT ![r] = FoldResult(next, f, "skipped")]
                 /\ UNCHANGED remote
            ELSE /\ uploads' = [uploads EXCEPT ![r] = FoldResult(sent, f, "uploaded")]
                 /\ remote' =
                      IF known
                      THEN RemoteUpdate(remote, p, u.remoteFilesMap[p].id, src[p].content)
                      ELSE RemoteCreate(remote, p, src[p].content)
    /\ UNCHANGED <<driveIsCancelled, driveIsPaused, pausePromiseResolve,
                   uploadCalls, uploadLimit, layout, backupFolderId>>
    /\ UNCHANGED besidesDrive

\* resolving the promise of a pause wait
Resolve(ups, r) ==
    IF r = 0 THEN ups ELSE [ups EXCEPT ![r].released = TRUE]

\* lines 559-565
DriveCancelCall ==
    /\ driveIsCancelled' = TRUE
    /\ uploads' = Resolve(uploads, pausePromiseResolve)
    /\ UNCHANGED <<driveIsPaused, pausePromiseResolve, remote, uploadCalls,
                   uploadLimit, layout, backupFolderId>>

\* cancel() of the remote engine called by some caller
DriveCancel == DriveCancelCall /\ UNCHANGED besidesDrive

\* lines 570-572
DrivePause ==
    /\ driveIsPaused' = TRUE
    /\ UNCHANGED <<driveIsCancelled, pausePromiseResolve, remote, uploads,
                   uploadCalls, uploadLimit, layout, backupFolderId>>
    /\ UNCHANGED besidesDrive

\* lines 577-583
DriveResume ==
    /\ driveIsPaused' = FALSE
    /\ uploads' = Resolve(uploads, pausePromiseResolve)
    /\ pausePromiseResolve' = 0
    /\ UNCHANGED <<driveIsCancelled, remote, uploadCalls, uploadLimit, layout, backupFolderId>>
    /\ UNCHANGED besidesDrive

\* the sources and Drive folders the uploads are explored from: modification
\* times play no part in the remote diff; several uploadSource calls are
\* explored with at most RepeatFiles files in the source and no object beside
\* them, sub-folders with one call, files all alike and an empty Drive folder
DriveSources ==
    {t \in Trees : Flat(t) /\ \A p \in Paths : t[p] = NoFile \/ t[p].mtime = 1}
DriveFolders == [Paths -> {<<>>} \cup {<<c>> : c \in Contents}]

\* the directories the files of a source may lie in
Layouts(tree) ==
    {l \in [Paths -> 0..MaxDepth] : \A p \in Paths : tree[p] = NoFile => l[p] = 0}

DriveInit ==
    /\ SyncServiceIdle
    /\ runLimit = 0
    /\ dst = EmptyTree
    /\ destExists = FALSE
    /\ GoogleDriveServiceIdle
    /\ src \in DriveSources
    /\ remote \in DriveFolders
    /\ uploadLimit \in 1..MaxUploads
    /\ uploadLimit > 1 => Cardinality(Entries(src)) <= RepeatFiles
    /\ uploadLimit > 1 => \A p \in Paths : src[p] = NoFile => remote[p] = <<>>
    /\ layout \in Layouts(src)
    /\ layout # FlatLayout => uploadLimit = 1 /\ remote = NoObjects /\ Plain(src)
    /\ AppIdle
    /\ ServicesIdle

DriveNext ==
    \/ UploadSource
    \/ \E r \in UploadIds : RootDone(r)
    \/ \E r \in UploadIds : SetupDone(r)
    \/ \E r \in UploadIds : ScanDone(r)
    \/ \E r \in UploadIds : ListDone(r)
    \/ \E r \in UploadIds : Top(r)
    \/ \E r \in UploadIds : Wake(r)
    \/ \E r \in UploadIds : FolderDone(r)
    \/ \E r \in UploadIds : UploadDone(r)
    \/ DriveCancel
    \/ DrivePause
    \/ DriveResume

DriveSpec == DriveInit /\ [][DriveNext]_vars

(***************************************************************************)
(* Both engines.  The two services are separate objects that share no      *)
(* field, so a behaviour exercises one of them: the local engine from the  *)
(* states of Init, the remote engine from the states of DriveInit.         *)
(***************************************************************************)
EnginesInit == Init \/ DriveInit

EnginesNext ==
    \/ runLimit > 0 /\ Next
    \/ uploadLimit > 0 /\ DriveNext

EnginesSpec == EnginesInit /\ [][EnginesNext]_vars

(***************************************************************************)
(* App: the backup of the selected sources and the controls of the         *)
(* interface.  handleStartBackup backs the sources up one after the other, *)
(* each by one call of the engine of the selected destination, which it    *)
(* awaits.  The sources are alike; each has a folder of its own at the     *)
(* destination, and src, dst and remote are the folders of the source      *)
(* whose turn it is.  One backup is started in a behaviour.                *)
(***************************************************************************)
\* the folders a source of the loop is backed up from and to
AppSources == {t \in DriveSources : Cardinality(Entries(t)) <= RepeatFiles}
AppDestinations ==
    {t \in Trees : Flat(t) /\ t \in [Paths -> {NoFile, [content |-> 1, mtime |-> 1]}]}
AppFolders == {f \in DriveFolders : \A p \in Paths : src[p] = NoFile => f[p] = <<>>}

AppInit ==
    /\ ServicesIdle
    /\ SyncServiceIdle
    /\ GoogleDriveServiceIdle
    /\ appPc = "idle"
    /\ sourceIdx = 0
    /\ isBackingUp = FALSE
    /\ appIsPaused = FALSE
    /\ cancelledAt = 0
    /\ isCloudBackup \in BOOLEAN
    /\ sourceCount \in 1..(IF isCloudBackup THEN MaxUploads ELSE MaxRuns)
    /\ src \in (IF sourceCount = 1 THEN DriveSources ELSE AppSources)
    /\ uploadLimit = IF isCloudBackup THEN sourceCount ELSE 0
    /\ runLimit = IF isCloudBackup THEN 0 ELSE sourceCount
    /\ remote \in (IF isCloudBackup THEN AppFolders ELSE {NoObjects})
    /\ layout \in (IF isCloudBackup /\ sourceCount = 1 THEN Layouts(src) ELSE {FlatLayout})
    /\ layout # FlatLayout => remote = NoObjects /\ Plain(src)
    /\ dst \in (IF isCloudBackup THEN {EmptyTree} ELSE AppDestinations)
    /\ destExists \in (IF Entries(dst) = {} /\ ~isCloudBackup THEN BOOLEAN
                      ELSE {~isCloudBackup})

\* part_004 lines 921-929: setIsBackingUp(true), setIsPaused(false), and the
\* loop over sourcesToBackup is entered
HandleStartBackup ==
    /\ appPc = "idle"
    /\ appPc' = "calling"
    /\ sourceIdx' = 1
    /\ isBackingUp' = TRUE
    /\ appIsPaused' = FALSE
    /\ UNCHANGED <<sourceCount, isCloudBackup, cancelledAt>>
    /\ UNCHANGED <<localVars, driveVars, serviceVars>>

\* part_004 lines 933-948 and main.ts 'cloud:upload', 'backup:start': the
\* engine of the destination is called for the source, without options
BackupSource ==
    /\ appPc = "calling"
    /\ appPc' = "awaiting"
    /\ IF isCloudBackup
       THEN UploadSourceCall /\ UNCHANGED localVars
       ELSE SyncCall(<<>>) /\ UNCHANGED driveVars
    /\ UNCHANGED <<sourceCount, sourceIdx, isCloudBackup, isBackingUp,
                   appIsPaused, cancelledAt, serviceVars>>

\* the call the loop awaits has returned its result
Returned ==
    IF isCloudBackup THEN uploads[sourceIdx].pc = "done"
    ELSE ~isRunning /\ Len(results) = sourceIdx

\* part_004 lines 951-972: the result is shown and the loop goes on to the
\* next source; after the last one the finally block clears isBackingUp
BackupReturned ==
    /\ appPc = "awaiting"
    /\ Returned
    /\ IF sourceIdx < sourceCount
       THEN /\ appPc' = "calling"
            /\ sourceIdx' = sourceIdx + 1
            /\ remote' \in (IF isCloudBackup THEN AppFolders ELSE {remote})
            /\ dst' \in (IF isCloudBackup THEN {dst} ELSE AppDestinations)
            /\ destExists' \in (IF Entries(dst') = {} /\ ~isCloudBackup THEN BOOLEAN
                               ELSE {~isCloudBackup})
            /\ UNCHANGED isBackingUp
       ELSE /\ appPc' = "finished"
            /\ isBackingUp' = FALSE
            /\ UNCHANGED <<sourceIdx, remote, dst, destExists>>
    /\ UNCHANGED <<sourceCount, isCloudBackup, appIsPaused, cancelledAt,
                   serviceVars>>
    /\ UNCHANGED <<src, now, isRunning, isPaused, isCancelled, currentProgress,
                   runVars, results, rejected, phases, aliased, runLimit>>
    /\ UNCHANGED <<driveIsCancelled, driveIsPaused, pausePromiseResolve, uploads,
                   uploadCalls, uploadLimit, layout, backupFolderId>>

\* part_004 lines 1036-1043: the progress bar, with its pause and cancel
\* buttons, is rendered while isBackingUp && progress; progress is set by the
\* backup:progress events, those of SyncService (part_004 lines 636-638)
ProgressBarShown == isBackingUp /\ phases # <<>>

\* part_004 lines 978-990: backup.resume() or backup.pause()
HandlePauseResume ==
    /\ ProgressBarShown
    /\ IF appIsPaused THEN ResumeCall ELSE PauseCall
    /\ appIsPaused' = ~appIsPaused
    /\ UNCHANGED <<appPc, sourceCount, sourceIdx, isCloudBackup, isBackingUp,
                   cancelledAt>>
    /\ UNCHANGED <<driveVars, serviceVars>>

\* the request is recorded the first time
Requested == IF cancelledAt = 0 THEN sourceIdx ELSE cancelledAt

\* part_004 lines 995-1003 and main.ts 'backup:cancel': backup.cancel() is
\* syncService.cancel(); isBackingUp and isPaused are cleared
HandleCancelBackup ==
    /\ ProgressBarShown
    /\ CancelCall
    /\ isBackingUp' = FALSE
    /\ appIsPaused' = FALSE
    /\ cancelledAt' = Requested
    /\ UNCHANGED <<appPc, sourceCount, sourceIdx, isCloudBackup>>
    /\ UNCHANGED <<driveVars, serviceVars>>

\* preload.ts cloud.cancel and main.ts 'cloud:cancel': cancel() of the remote
\* engine, requested while the sources are uploaded
CloudCancel ==
    /\ isCloudBackup
    /\ appPc \in {"calling", "awaiting"}
    /\ DriveCancelCall
    /\ cancelledAt' = Requested
    /\ UNCHANGED <<appPc, sourceCount, sourceIdx, isCloudBackup, isBackingUp,
                   appIsPaused>>
    /\ UNCHANGED <<localVars, serviceVars>>

AppNext ==
    \/ HandleStartBackup
    \/ BackupSource
    \/ BackupReturned
    \/ HandlePauseResume
    \/ HandleCancelBackup
    \/ CloudCancel
    \/ ScanSourceDone
    \/ ScanDestDone
    \/ LoopTop
    \/ SleepWake
    \/ LockChecked
    \/ CopyDone
    \/ UnlinkDone
    \/ \E r \in UploadIds : RootDone(r)
    \/ \E r \in UploadIds : SetupDone(r)
    \/ \E r \in UploadIds : ScanDone(r)
    \/ \E r \in UploadIds : ListDone(r)
    \/ \E r \in UploadIds : Top(r)
    \/ \E r \in UploadIds : FolderDone(r)
    \/ \E r \in UploadIds : UploadDone(r)

AppSpec == AppInit /\ [][AppNext]_vars

(***************************************************************************)
(* SchedulerService and the schedule of the store.  Time is counted in     *)
(* intervals of 10 s, the period of the scheduler's timer: a minute lasts  *)
(* TicksPerMinute intervals, a day MinutesPerDay minutes and a week        *)
(* DaysPerWeek days.  The store holds one schedule, which the scheduler    *)
(* reads at every check and which the schedule manager of the interface    *)
(* rewrites when the user saves it.                                        *)
(***************************************************************************)
\* checkIntervalMs = 10000 and the 60000 ms of shouldRun
TicksPerMinute == 6

\* now.getHours(), now.getMinutes() and now.getDay()
MinuteOfDay(t) == (t \div TicksPerMinute) % MinutesPerDay
DayOfWeek(t) == (t \div (TicksPerMinute * MinutesPerDay)) % DaysPerWeek

\* what the user can set in the schedule manager
Settings ==
    [enabled : BOOLEAN, time : 0..(MinutesPerDay - 1),
     frequency : {"daily", "weekly"}, days : SUBSET (0..(DaysPerWeek - 1))]

\* lines 51-77: enabled, the time of the schedule is the current HH:mm and,
\* for a weekly schedule, the current day is one of its days
isDue(s, t) ==
    /\ s.enabled
    /\ s.time = MinuteOfDay(t)
    /\ \/ s.frequency = "daily"
       \/ s.frequency = "weekly" /\ DayOfWeek(t) \in s.days

\* lines 92-109
shouldRun(s, t) == s.lastRun = NoRun \/ ~(t - s.lastRun < TicksPerMinute)

\* lines 35-90 and 111-117: the schedule that is due and should run gets its
\* lastRun set and written to the store, then schedule:due is emitted; if the
\* store throws, the check ends there
checkSchedules(stored) ==
    IF isDue(schedule, clock) /\ shouldRun(schedule, clock) /\ stored
    THEN /\ schedule' = [schedule EXCEPT !.lastRun = clock]
         /\ due' = Append(due, clock)
    ELSE UNCHANGED <<schedule, due>>

\* lines 12-24: start(); the timer is created after the first check returns
SchedulerStart ==
    /\ ~schedulerIsRunning
    /\ schedulerIsRunning' = TRUE
    /\ \E stored \in BOOLEAN :
          /\ checkSchedules(stored)
          /\ timer' = IF isDue(schedule, clock) /\ shouldRun(schedule, clock) /\ ~stored
                      THEN NoTimer ELSE clock + 1
    /\ UNCHANGED <<clock, editing>>
    /\ UNCHANGED <<engineVars, usbVars>>

\* lines 21-23: the interval fires
Tick ==
    /\ timer # NoTimer
    /\ clock >= timer
    /\ timer' = clock + 1
    /\ \E stored \in BOOLEAN : checkSchedules(stored)
    /\ UNCHANGED <<clock, editing, schedulerIsRunning>>
    /\ UNCHANGED <<engineVars, usbVars>>

\* 10 s pass; the interval fires at most MaxLate intervals late; time is
\* followed up to MaxClock and up to MaxDue events
TimePasses ==
    /\ clock < MaxClock
    /\ Len(due) < MaxDue
    /\ timer # NoTimer => clock < timer + MaxLate
    /\ clock' = clock + 1
    /\ UNCHANGED <<schedule, editing, schedulerIsRunning, timer, due>>
    /\ UNCHANGED <<engineVars, usbVars>>

\* ScheduleManager line 139: the user opens the schedule, as the list loaded
\* from the store shows it, in the editor
EditSchedule ==
    /\ editing = NoEdit
    /\ editing' = schedule
    /\ UNCHANGED <<clock, schedule, schedulerIsRunning, timer, due>>
    /\ UNCHANGED <<engineVars, usbVars>>

\* ScheduleManager.handleSave (lines 53-84) and StoreService.updateSchedule
\* (part_009 lines 168-175): the record of
\* the editor, with the lastRun it was opened with, replaces the stored one;
\* the user has set its time, or changed nothing
SaveSchedule ==
    /\ editing # NoEdit
    /\ \E time \in 0..(MinutesPerDay - 1) :
          schedule' = [editing EXCEPT !.time = time]
    /\ editing' = NoEdit
    /\ UNCHANGED <<clock, schedulerIsRunning, timer, due>>
    /\ UNCHANGED <<engineVars, usbVars>>

EnginesIdle ==
    /\ SyncServiceIdle
    /\ GoogleDriveServiceIdle
    /\ AppIdle
    /\ src = EmptyTree
    /\ dst = EmptyTree
    /\ destExists = FALSE
    /\ runLimit = 0
    /\ remote = NoObjects
    /\ uploadLimit = 0
    /\ layout = FlatLayout

SchedulerInit ==
    /\ EnginesIdle
    /\ SchedulerIdle
    /\ UsbIdle
    /\ drives = {}
    /\ \E set \in Settings :
          schedule = [enabled |-> set.enabled, time |-> set.time,
                      frequency |-> set.frequency, days |-> set.days,
                      lastRun |-> NoRun]

SchedulerNext ==
    \/ SchedulerStart
    \/ Tick
    \/ TimePasses
    \/ EditSchedule
    \/ SaveSchedule

SchedulerSpec == SchedulerInit /\ [][SchedulerNext]_vars

(***************************************************************************)
(* UsbService: the watcher of the drives.  listDrives runs a command and   *)
(* settles later, with the list of the drives of that moment or with null; *)
(* several calls can be under way, and they settle in any order.           *)
(***************************************************************************)
Letters == 1..NumDrives

\* lines 90-96: startWatching(); the first listing is under way
StartWatching ==
    /\ ~isWatching
    /\ Len(listings) + pending.init + pending.poll < MaxListings
    /\ isWatching' = TRUE
    /\ pending' = [pending EXCEPT !.init = @ + 1]
    /\ UNCHANGED <<pollingInterval, timers, previousDrives, drives, listings, events>>
    /\ UNCHANGED <<engineVars, schedulerVars>>

\* lines 96-102 and 134: the first listing settles: the drives listed are
\* added to previousDrives, and the interval timer is created and kept in
\* pollingInterval
InitialListingDone ==
    /\ pending.init > 0
    /\ pending' = [pending EXCEPT !.init = @ - 1]
    /\ \E ok \in BOOLEAN :
          /\ listings' = Append(listings, [kind |-> "init", ok |-> ok])
          /\ previousDrives' = IF ok THEN previousDrives \cup drives ELSE previousDrives
    /\ LET created == 1 + Cardinality({i \in DOMAIN listings : listings[i].kind = "init"})
       IN /\ timers' = timers \cup {created}
          /\ pollingInterval' = created
    /\ UNCHANGED <<isWatching, drives, events>>
    /\ UNCHANGED <<engineVars, schedulerVars>>

\* lines 102-103: an interval timer fires and its callback calls listDrives
PollFires ==
    /\ timers # {}
    /\ Len(listings) + pending.init + pending.poll < MaxListings
    /\ pending' = [pending EXCEPT !.poll = @ + 1]
    /\ UNCHANGED <<isWatching, pollingInterval, timers, previousDrives, drives,
                   listings, events>>
    /\ UNCHANGED <<engineVars, schedulerVars>>

\* a poll that takes a failed listing for a list without drives
PollChanges_FailureAsEmpty(prev, ok, listed) ==
    LET cur == IF ok THEN listed ELSE {}
    IN [connected |-> cur \ prev, disconnected |-> prev \ cur, previous |-> cur]

\* lines 105-133: null is ignored; else the drives listed and not held are
\* connected, the drives held and not listed are disconnected, and the
\* drives listed become previousDrives
PollChanges(prev, ok, listed) ==
    IF ~ok THEN [connected |-> {}, disconnected |-> {}, previous |-> prev]
    ELSE [connected |-> listed \ prev, disconnected |-> prev \ listed,
          previous |-> listed]

\* lines 103-133: the listing of a poll settles
PollListingDone ==
    /\ pending.poll > 0
    /\ pending' = [pending EXCEPT !.poll = @ - 1]
    /\ \E ok \in BOOLEAN :
          LET changes == PollChanges(previousDrives, ok, drives)
          IN /\ listings' = Append(listings, [kind |-> "poll", ok |-> ok])
             /\ previousDrives' = changes.previous
             /\ events' = IF changes.connected = {} /\ changes.disconnected = {}
                          THEN events
                          ELSE Append(events, [connected |-> changes.connected,
                                               disconnected |-> changes.disconnected])
    /\ UNCHANGED <<isWatching, pollingInterval, timers, drives>>
    /\ UNCHANGED <<engineVars, schedulerVars>>

\* lines 141-147: stopWatching()
StopWatching ==
    /\ timers' = IF pollingInterval # 0 THEN timers \ {pollingInterval} ELSE timers
    /\ pollingInterval' = 0
    /\ isWatching' = FALSE
    /\ UNCHANGED <<previousDrives, drives, pending, listings, events>>
    /\ UNCHANGED <<engineVars, schedulerVars>>

\* a drive is plugged in or removed
DrivesChange ==
    /\ \E d \in Letters : drives' = IF d \in drives THEN drives \ {d} ELSE drives \cup {d}
    /\ UNCHANGED <<isWatching, pollingInterval, timers, previousDrives, pending,
                   listings, events>>
    /\ UNCHANGED <<engineVars, schedulerVars>>

UsbInit ==
    /\ EnginesIdle
    /\ SchedulerIdle
    /\ schedule = NoEdit
    /\ UsbIdle
    /\ drives \in SUBSET Letters

UsbNext ==
    \/ StartWatching
    \/ InitialListingDone
    \/ PollFires
    \/ PollListingDone
    \/ StopWatching
    \/ DrivesChange

UsbSpec == UsbInit /\ [][UsbNext]_vars

(***************************************************************************)
(* Properties of the local engine.                                         *)
(***************************************************************************)
LastResult == results[Len(results)]
AfterRun == ~isRunning /\ results # <<>>

\* C1: a sync() call made while a sync is running is rejected with an error
\* and changes nothing of the running invocation: the flags, the progress, the
\* error list, the run's own state and the results stay as they were, and
\* isRunning stays set.
RejectedSyncChangesNothing ==
    [][(isRunning /\ \E options \in OptionArgs : Sync(options))
         => /\ rejected' = rejected + 1
            /\ isRunning'
            /\ UNCHANGED <<isPaused, isCancelled, currentProgress, runVars,
                           results, dst>>]_vars

RejectedWhileCopying == rejected > 0 /\ isRunning /\ pc = "copying"

\* C2: once cancel() has been called during a run, the loop takes up no
\* further source file for copying, also when the cancel arrives while the
\* loop is in its pause wait (a file already taken up may finish).
NoFileTakenAfterCancel ==
    [][(isRunning /\ isCancelled)
         => ~(pc \in {"top", "wait"} /\ pc' = "locking")]_vars

\* C3: a destination file is deleted only if its relative path is absent from
\* the source scan; the counterpart of a source file is never deleted, whatever
\* happened to that source file in the copy phase.
OnlyOrphansDeleted ==
    [][\A p \in Paths :
          (dst[p] # NoFile /\ dst'[p] = NoFile) => src[p] = NoFile]_vars

SecondRunTransfersNothing ==
    (Len(results) >= 2 /\ results[1].success /\ ~results[1].cancelled
       /\ results[1].deleteOrphans = results[2].deleteOrphans)
      => /\ results[2].filesCreated = 0
         /\ results[2].filesUpdated = 0
         /\ results[2].filesDeleted = 0
         /\ results[2].success


(***************************************************************************)
(* Properties of the control plane of both engines and of the remote       *)
(* engine.                                                                 *)
(***************************************************************************)
Waiting(r) == uploads[r].pc = "waiting"

\* C4: when cancel() is called, no run stays blocked in its pause wait: the
\* local wait loop's condition is false afterwards and the promise of every
\* waiting uploadSource call is resolved, so the run goes on to its end
\* without resume().
CancelReleasesPauseWait ==
    [][/\ Cancel => (pc' = "wait" => ~(isPaused' /\ ~isCancelled'))
       /\ DriveCancel => \A r \in UploadIds : Waiting(r)' => uploads'[r].released
      ]_vars

\* C5: resume() clears the paused flag and releases every run blocked in its
\* pause wait; no wake-up is lost.
ResumeReleasesPauseWait ==
    [][/\ Resume => (pc' = "wait" => ~isPaused')
       /\ DriveResume => /\ ~driveIsPaused'
                         /\ \A r \in UploadIds : Waiting(r)' => uploads'[r].released
      ]_vars

\* C6: no file is taken up for transfer at a moment when the paused flag is
\* set and the run is not cancelled.
PauseHonoured ==
    [][/\ (pc \in {"top", "wait"} /\ pc' = "locking")
            => ~(isPaused /\ ~isCancelled)
       /\ \A r \in UploadIds :
            (uploads[r].pc \in {"top", "waiting"} /\ uploads'[r].pc = "uploading")
              => ~(driveIsPaused /\ ~driveIsCancelled)
      ]_vars

\* C7: an uploadSource() call made while another one is active fails fast: it
\* starts no second run and leaves the cancelled and paused flags and the
\* pause-wait handle of the active run alone.
ConcurrentUploadFailsFast ==
    [][((\E r \in UploadIds : Active(r)) /\ UploadSource)
         => /\ \A r \in UploadIds : Active(r)' => Active(r)
            /\ UNCHANGED <<driveIsCancelled, driveIsPaused, pausePromiseResolve>>
      ]_vars

\* C10: no step of the remote engine removes a remote object, and the objects
\* of a relative path that is absent from the source stay exactly as they
\* were, however the run ends.
RemoteObjectsNeverRemoved ==
    [][\A p \in Paths :
          /\ Len(remote'[p]) >= Len(remote[p])
          /\ src[p] = NoFile => remote'[p] = remote[p]]_vars

UploadedBesideAbsentFile ==
    /\ \E r \in UploadIds : uploads[r].pc = "done" /\ uploads[r].filesUploaded > 0
    /\ \E p \in Paths : src[p] = NoFile /\ remote[p] # <<>>

(***************************************************************************)
(* Progress and error handling.  The percent of currentProgress changes at *)
(* most once in a step of the model, so the percents of successive states  *)
(* are the emitted percents.                                               *)
(***************************************************************************)
\* C11 as stated: in any run of sync() the emitted percent never decreases and
\* the last emitted percent is 100.
PercentRisesToHundred ==
    [][isRunning
         => /\ currentProgress'.percent >= currentProgress.percent
            /\ ~isRunning' => currentProgress'.percent = 100]_vars

\* C11 (amended): in any run of sync() the emitted percent never decreases,
\* and the last emitted percent is 100 when the run ends in phase done; a run
\* aborted by a structural error ends with the percent it had reached.
PercentRisesToHundredWhenDone ==
    [][isRunning
         => /\ currentProgress'.percent >= currentProgress.percent
            /\ (~isRunning' /\ currentProgress'.phase = "done")
                 => currentProgress'.percent = 100]_vars

HundredAfterIntermediatePercent ==
    /\ AfterRun
    /\ currentProgress.phase = "done"
    /\ currentProgress.percent = 100
    /\ currentProgress.processedFiles >= 2

\* C12: in any run of uploadSource the emitted percent never decreases from
\* one progress event of the upload loop to the next, and the run that leaves
\* the loop ends with percent 100.
UploadPercentRisesToHundred ==
    [][\A r \in UploadIds :
          uploads[r].pc \in {"top", "waiting", "uploading"}
            => /\ uploads'[r].percent >= uploads[r].percent
               /\ uploads'[r].pc = "done" => uploads'[r].percent = 100]_vars

HasError(errs, p) == \E i \in 1..Len(errs) : errs[i].file = p

\* the destination holds the source file as far as the diff rule can tell
Mirrored(p) ==
    /\ dst[p] # NoFile
    /\ Size(dst[p].content) = Size(src[p].content)
    /\ dst[p].content = src[p].content \/ dst[p].mtime >= src[p].mtime

CountersCompleteWhenDone ==
    (AfterRun /\ currentProgress.phase = "done" /\ ~LastResult.cancelled)
      => /\ currentProgress.processedFiles = currentProgress.totalFiles
         /\ currentProgress.copiedBytes = currentProgress.totalBytes

\* C15: a failed upload is recorded and still advances the transferred-byte
\* counter by the file's size, so an uploadSource call that went through all
\* its files ends with bytesTransferred equal to the total of their sizes.
UploadedBytesCompleteWhenDone ==
    \A r \in UploadIds :
       (uploads[r].pc = "done" /\ uploads[r].idx > Len(uploads[r].files))
         => uploads[r].bytesTransferred = SumSizes(uploads[r].files, 1)

(***************************************************************************)
(* Results of both engines.                                                *)
(***************************************************************************)
InCopyLoop == pc \in {"top", "wait", "locking", "copying"}
InUploadLoop(r) == uploads[r].pc \in {"top", "waiting", "uploading"}

\* C16: every source file a run has gone through counts for one outcome at
\* most: created, updated or a recorded failure in the local engine (the rest
\* was skipped), and exactly one of uploaded, skipped or failed in the remote
\* engine; so no file is counted as created and as updated, and the counters
\* of a run never exceed the number of source files.
UniqueTransferDecision ==
    /\ InCopyLoop
         => /\ filesCreated + filesUpdated + Len(currentProgress.errors) <= idx - 1
            /\ idx - 1 <= Len(sourceFiles)
    /\ \A i \in 1..Len(results) :
          results[i].filesCreated + results[i].filesUpdated
            <= Cardinality(Present(src))
    /\ \A r \in UploadIds :
          LET u == uploads[r] IN
          /\ InUploadLoop(r)
               => u.filesUploaded + u.filesSkipped + Len(u.errors) = u.idx - 1
          /\ u.filesUploaded + u.filesSkipped <= Len(u.files)

CreatedAndUpdatedInOneRun ==
    /\ AfterRun
    /\ LastResult.filesCreated > 0
    /\ LastResult.filesUpdated > 0

IsPrefix(a, b) == Len(a) <= Len(b) /\ SubSeq(b, 1, Len(a)) = a

\* C17: within a run the error list only grows, and when the run has ended in
\* phase done its result carries that whole list, with success true exactly
\* when the list is empty; likewise the result of an uploadSource call that
\* emitted done carries every error recorded in its loop.
ResultReportsEveryError ==
    /\ [][/\ isRunning => IsPrefix(currentProgress.errors, currentProgress'.errors)
          /\ \A r \in UploadIds :
                InUploadLoop(r) => IsPrefix(uploads[r].errors, uploads'[r].errors)
         ]_vars
    /\ []((AfterRun /\ currentProgress.phase = "done")
            => /\ LastResult.errors = currentProgress.errors
               /\ LastResult.success <=> (Len(currentProgress.errors) = 0))
    /\ [](\A r \in UploadIds :
            (uploads[r].pc = "done" /\ uploads[r].percent = 100)
              => uploads[r].success <=> (Len(uploads[r].errors) = 0))

DoneWithCopyAndDeletionError ==
    /\ AfterRun
    /\ currentProgress.phase = "done"
    /\ ~LastResult.success
    /\ \E i \in 1..Len(LastResult.errors) : LastResult.errors[i].code = "EBUSY"
    /\ \E i \in 1..Len(LastResult.errors) : LastResult.errors[i].code = "EPERM"

IdleControlCallsAreNoOps ==
    [][/\ (~isRunning /\ (Pause \/ Resume \/ Cancel))
            => UNCHANGED <<isRunning, currentProgress, runVars, results, dst>>
       /\ (~isRunning /\ \E options \in OptionArgs : Sync(options))
            => /\ ~isPaused' /\ ~isCancelled' /\ isRunning'
               /\ pc' = "scanning"
               /\ currentProgress' = InitialProgress
               /\ idx' = 1 /\ filesCreated' = 0 /\ filesUpdated' = 0
               /\ filesDeleted' = 0 /\ bytesTransferred' = 0
               /\ UNCHANGED <<results, dst>>
       /\ ((\A r \in UploadIds : ~Active(r))
             /\ (DrivePause \/ DriveResume \/ DriveCancel))
            => UNCHANGED <<uploads, remote, uploadCalls>>
       /\ ((\A r \in UploadIds : ~Active(r)) /\ UploadSource)
            => /\ ~driveIsPaused' /\ ~driveIsCancelled'
               /\ \E ok \in BOOLEAN :
                    uploads'[uploadCalls'] =
                      IF ok
                      THEN [NoUpload EXCEPT
                               !.pc = IF backupFolderId = 0 THEN "root" ELSE "setup",
                               !.rootQueried = (backupFolderId = 0)]
                      ELSE EndUpload(NoUpload, FALSE, StructuralError)
               /\ UNCHANGED remote
      ]_vars

IdleWithFlagsSet ==
    /\ ~isRunning /\ pc = "idle"
    /\ isPaused /\ isCancelled
    /\ Len(results) < runLimit

\* C20: in a run with deleteOrphans = false no destination file is deleted,
\* the deleting phase is not entered and the result has filesDeleted = 0; a
\* sync() call without options runs with deleteOrphans = true.
NoDeletionWithoutOption ==
    /\ [][/\ (isRunning /\ ~deleteOrphans)
                => /\ \A p \in Paths : dst[p] # NoFile => dst'[p] # NoFile
                   /\ currentProgress'.phase # "deleting"
          /\ (~isRunning /\ Sync(<<>>)) => deleteOrphans'
         ]_vars
    /\ [](\A i \in 1..Len(results) :
             ~results[i].deleteOrphans => results[i].filesDeleted = 0)

OrphanKeptWithoutOption ==
    /\ AfterRun
    /\ currentProgress.phase = "done"
    /\ ~LastResult.deleteOrphans /\ ~LastResult.cancelled
    /\ \E p \in Paths : src[p] = NoFile /\ dst[p] # NoFile
    /\ LastResult.filesCreated > 0


\* the run ends with phase done and no error, was not cancelled and had
\* deleteOrphans = true
CleanRunEnds ==
    /\ isRunning /\ ~isRunning'
    /\ currentProgress'.phase = "done"
    /\ currentProgress'.errors = <<>>
    /\ ~isCancelled
    /\ deleteOrphans

\* the entry the destination scan found at the path of a source file
HasCounterpart(f) ==
    \E j \in 1..Len(destFiles) : destFiles[j].relativePath = f.relativePath
Counterpart(f) ==
    destFiles[CHOOSE j \in 1..Len(destFiles) :
                  destFiles[j].relativePath = f.relativePath]

SourceFileIndexes == {i \in 1..Len(sourceFiles) : ~sourceFiles[i].isDirectory}
NewFiles == {i \in SourceFileIndexes : ~HasCounterpart(sourceFiles[i])}
ChangedFiles ==
    {i \in SourceFileIndexes :
        /\ HasCounterpart(sourceFiles[i])
        /\ \/ Counterpart(sourceFiles[i]).mtime < sourceFiles[i].mtime
           \/ Counterpart(sourceFiles[i]).size # sourceFiles[i].size}
OrphanFiles ==
    {j \in 1..Len(destFiles) :
        /\ ~destFiles[j].isDirectory
        /\ \A i \in SourceFileIndexes :
               sourceFiles[i].relativePath # destFiles[j].relativePath}

\* C21: when an uncancelled, error-free run with deleteOrphans = true ends, its
\* result counts as created the source files the destination scan had no
\* counterpart for, as updated those whose counterpart was older or of another
\* size, as deleted the destination files absent from the source, and as
\* bytes the sizes of all source files, the unchanged ones included.
CleanRunCounts ==
    [][CleanRunEnds =>
           LET result == results'[Len(results')] IN
           /\ result.success
           /\ result.errors = <<>>
           /\ result.filesCreated = Cardinality(NewFiles)
           /\ result.filesUpdated = Cardinality(ChangedFiles)
           /\ result.filesDeleted = Cardinality(OrphanFiles)
           /\ result.bytesTransferred = SumSizes(sourceFiles, 1)]_vars

\* a clean run has created one file, passed over none and deleted one
CleanRunCreatedAndDeleted ==
    /\ AfterRun /\ LastResult.success /\ LastResult.deleteOrphans
    /\ ~LastResult.cancelled
    /\ LastResult.filesCreated = 1
    /\ LastResult.filesUpdated = 0
    /\ LastResult.filesDeleted = 1
    /\ LastResult.bytesTransferred > 0


\* a step of the copy loop takes up the file at idx
TakesUpFile ==
    /\ pc \in {"top", "wait"}
    /\ pc' = "locking" \/ idx' = idx + 1
    /\ ~sourceFiles[idx].isDirectory

\* the diff rule on the two scans: no counterpart, an older one, or another size
NeedsTransfer(f) ==
    \/ ~HasCounterpart(f)
    \/ Counterpart(f).mtime < f.mtime
    \/ Counterpart(f).size # f.size

\* C26: a source file taken up by the copy loop goes on to the copy if and
\* only if the destination scan has no counterpart for it, or an older one, or
\* one of another size; otherwise nothing is written and the file is counted
\* in the processed files and bytes.  A copy that succeeds is counted as
\* created when there was no counterpart and as updated when there was one.
LocalDiffRule ==
    [][/\ TakesUpFile =>
              LET f == sourceFiles[idx] IN
              IF NeedsTransfer(f)
              THEN /\ pc' = "locking"
                   /\ currentProgress'.processedFiles = currentProgress.processedFiles
              ELSE /\ pc' = "top"
                   /\ dst' = dst
                   /\ filesCreated' = filesCreated /\ filesUpdated' = filesUpdated
                   /\ currentProgress'.processedFiles =
                          currentProgress.processedFiles + 1
                   /\ currentProgress'.copiedBytes = currentProgress.copiedBytes + f.size
                   /\ bytesTransferred' = bytesTransferred + f.size
       /\ pc \in {"locking", "copying"} =>
              /\ NeedsTransfer(sourceFiles[idx])
              /\ pc = "locking" => dst' = dst
              /\ isRunning' =>
                     /\ filesCreated' \in {filesCreated, filesCreated + 1}
                     /\ filesUpdated' \in {filesUpdated, filesUpdated + 1}
                     /\ filesCreated' # filesCreated => ~HasCounterpart(sourceFiles[idx])
                     /\ filesUpdated' # filesUpdated => HasCounterpart(sourceFiles[idx])]_vars

\* a run over two source files has updated one and passed over the other
UpdatedOneSkippedOne ==
    /\ AfterRun /\ LastResult.success
    /\ Cardinality(Present(src)) = 2
    /\ currentProgress.processedFiles = 2
    /\ LastResult.filesCreated = 0
    /\ LastResult.filesUpdated = 1


\* C30: every progress snapshot of the copying phase carries the percent of
\* its own processedFiles and totalFiles, round(100 * processedFiles /
\* totalFiles).
PercentMatchesSnapshot ==
    (isRunning /\ currentProgress.phase = "copying" /\ currentProgress.totalFiles > 0)
      => currentProgress.percent =
             RoundPercent(currentProgress.processedFiles, currentProgress.totalFiles)


\* the place of a phase in the order of the run
PhaseRank(phase) ==
    CASE phase = "scanning" -> 1
      [] phase = "comparing" -> 2
      [] phase = "copying" -> 3
      [] phase = "deleting" -> 4
      [] phase = "done" -> 5
      [] OTHER -> 6

\* C29: the phases a run emits come in the order scanning, comparing, copying,
\* deleting, done and never go back; nothing is emitted after done or after
\* error, so each of them comes once at most and error never follows done.
PhasesInOrder ==
    \A i \in 1..(Len(phases) - 1) :
        /\ phases[i] \notin {"done", "error"}
        /\ PhaseRank(phases[i]) < PhaseRank(phases[i + 1])


\* C25: every invocation that was accepted returns one result when it ends and
\* nothing else adds a result; a result once returned keeps its counts and its
\* error list through every later step: a later run, a rejected call, a
\* control call.
ResultsKept ==
    [][/\ Len(results') \in {Len(results), Len(results) + 1}
       /\ \A i \in 1..Len(results) : results'[i] = results[i]
       /\ (Len(results') = Len(results) + 1) <=> (isRunning /\ ~isRunning')]_vars

\* the result of a first run that recorded an error, after a second run that
\* recorded none, a rejected call and a control call
ResultKeptThroughSecondRun ==
    /\ Len(results) = 2
    /\ results[1].errors # <<>>
    /\ results[2].errors = <<>>
    /\ results[2].filesCreated = 1
    /\ rejected = 1
    /\ isPaused


\* the errors of a list that were recorded with the given code
ErrorsWithCode(errs, code) == {i \in 1..Len(errs) : errs[i].code = code}

\* C28: when a run that went through the orphan phase ends, the deleted files
\* and the recorded deletion failures together are the destination files
\* absent from the source, each attempted once; and no step of a run removes
\* a destination directory.
OrphansAllAttempted ==
    [][/\ (isRunning /\ ~isRunning' /\ currentProgress.phase = "deleting") =>
              results'[Len(results')].filesDeleted
                + Cardinality(ErrorsWithCode(currentProgress'.errors, "EPERM"))
                = Cardinality(OrphanFiles)
       /\ \A p \in Paths : dst[p] = Directory => dst'[p] = Directory]_vars


(***************************************************************************)
(* Properties of the remote folders and of the remote diff.                *)
(***************************************************************************)
\* C22: within one uploadSource call every path prefix is handed to
\* ensureSubFolder once at most.
FolderLookedUpOnce ==
    \A r \in UploadIds : \A k \in Depths : Len(uploads[r].lookups[k]) <= 1

\* C22 (amended): within one uploadSource call no path prefix is handed to
\* ensureSubFolder again once a call for it has returned a folder, however
\* many files lie under it and in whatever order they come; a prefix is only
\* asked for again after a call for it has failed.
ResolvedFolderLookedUpOnce ==
    \A r \in UploadIds : \A k \in Depths :
        \A i \in 1..(Len(uploads[r].lookups[k]) - 1) : ~uploads[r].lookups[k][i]

\* two files of one folder were uploaded and the folder asked for once
TwoFilesOneLookup ==
    \E r \in UploadIds :
        /\ uploads[r].pc = "done"
        /\ uploads[r].filesUploaded = 2
        /\ \A p \in Paths : layout[p] = 1
        /\ uploads[r].lookups[1] = <<TRUE>>

\* C23: every uploadSource call that goes on past the authentication asks
\* Drive for the backup folder, whatever an earlier call has resolved.
BackupFolderQueriedEachRun ==
    \A r \in UploadIds : Active(r) => uploads[r].rootQueried

\* C24: within an uploadSource call no upload of a file is started while the
\* cancel flag is set; the flag is set by cancel() and cleared only by the
\* start of a call, so it being set means cancel() was called during every
\* call that is under way.
NoUploadStartedAfterCancel ==
    [][\A r \in UploadIds :
           (driveIsCancelled /\ Active(r) /\ uploads[r].pc # "uploading")
             => uploads'[r].pc # "uploading"]_vars

\* uploadFile has returned to the call r
UploadReturns(r) == uploads[r].pc = "uploading" /\ uploads'[r].pc # "uploading"

\* C27: when uploadFile returns for a file with a remote handle whose digest
\* equals the file's, nothing is uploaded and the file counts as skipped; with
\* a handle of another digest the object of the handle gets the new bytes and
\* no object is added; without a handle one object is added.  A failure adds
\* an error and counts neither way.
RemoteDiffRule ==
    [][\A r \in UploadIds : UploadReturns(r) =>
          LET u == uploads[r]
              v == uploads'[r]
              p == u.files[u.idx].relativePath
              failed == Len(v.errors) = Len(u.errors) + 1
              counted(skipped, uploaded) ==
                  /\ v.errors = u.errors
                  /\ v.filesSkipped = u.filesSkipped + skipped
                  /\ v.filesUploaded = u.filesUploaded + uploaded
          IN /\ \A q \in Paths \ {p} : remote'[q] = remote[q]
             /\ IF p \notin DOMAIN u.remoteFilesMap
                THEN \/ failed /\ remote' = remote
                     \/ /\ counted(0, 1)
                        /\ remote'[p] = Append(remote[p], src[p].content)
                ELSE IF u.remoteFilesMap[p].md5 = src[p].content
                THEN /\ remote' = remote
                     /\ failed \/ counted(1, 0)
                ELSE \/ failed /\ remote' = remote
                     \/ /\ counted(0, 1)
                        /\ Len(remote'[p]) = Len(remote[p])
                        /\ remote'[p][u.remoteFilesMap[p].id] = src[p].content
                        /\ \A i \in 1..Len(remote[p]) :
                               i # u.remoteFilesMap[p].id => remote'[p][i] = remote[p][i]
      ]_vars

\* one call has skipped a file of equal digest and replaced in place the
\* object of another
SkippedOneReplacedOne ==
    \E r \in UploadIds :
        /\ uploads[r].pc = "done"
        /\ uploadCalls = 1
        /\ uploads[r].filesSkipped = 1
        /\ uploads[r].filesUploaded = 1
        /\ \A p \in Paths :
               /\ p \in DOMAIN uploads[r].remoteFilesMap
               /\ Len(remote[p]) = 1
               /\ remote[p][1] = src[p].content

\* C31: the error list of the local engine is empty when an invocation starts;
\* while the run lasts every step leaves it as it was or appends to it, the
\* step that ends the run included; and the result of the run lists the errors
\* of that list, or the one FATAL error of the run, so nothing of an earlier
\* run shows in a later one.
ErrorListGrowsWithinRun ==
    [][/\ (~isRunning /\ isRunning') => currentProgress'.errors = <<>>
       /\ isRunning => IsPrefix(currentProgress.errors, currentProgress'.errors)
       /\ Len(results') > Len(results) =>
              results'[Len(results')].errors \in
                  {currentProgress'.errors, <<[file |-> 0, code |-> "FATAL"]>>}
       /\ (~isRunning /\ ~isRunning') =>
              currentProgress'.errors = currentProgress.errors]_vars

\* a first run that ended with the error of a file, and a second run that
\* ended with no error at all
SecondRunWithoutFirstRunErrors ==
    /\ Len(results) = 2
    /\ results[1].errors # <<>>
    /\ \A i \in 1..Len(results[1].errors) : results[1].errors[i].code # "FATAL"
    /\ results[2].errors = <<>>
    /\ currentProgress.errors = <<>>

\* the folder of the relative directory of a path: the names on the way down
\* from the folder of the source
DirectoryOf(p) == [k \in 1..layout[p] |-> k]

\* C32: whenever an uploadSource call creates the object of a file, the
\* parent folder it hands to the creation is the folder of the relative
\* directory of that file, also when the resolution of a folder on the way
\* has failed.
CreatedUnderOwnFolder ==
    [][\A r \in UploadIds :
          (/\ uploads[r].pc = "uploading"
           /\ uploads'[r].pc # "uploading"
           /\ \E p \in Paths : Len(remote'[p]) > Len(remote[p]))
          => uploads[r].parentFolderId =
                 DirectoryOf(uploads[r].files[uploads[r].idx].relativePath)]_vars

\* C34: the step that returns the result of a sync() invocation clears the
\* running flag, whichever way the run ends; the flag is set only while an
\* invocation is suspended somewhere in sync(), so isActive() is false once it
\* has returned, and a call is rejected only while another is in progress.
RunningFlagClearedAtEnd ==
    [][/\ Len(results') > Len(results) => ~isRunning'
       /\ isRunning' <=> pc' # "idle"
       /\ rejected' > rejected => pc # "idle"
       /\ (~isRunning /\ pc' # "idle") => isRunning']_vars

\* a second invocation accepted after a first one that was cancelled
SyncAcceptedAfterCancelledRun ==
    /\ Len(results) = 1
    /\ results[1].cancelled
    /\ isRunning
    /\ pc = "scanning"

\* C35: once cancel() has been called during a run, the run takes up no file
\* of the destination for deletion: it does not enter the orphan phase, and
\* in the orphan phase it does not go on to another orphan.  The unlink that
\* is awaited when cancel() is called is left out of the statement.
NoOrphanTakenAfterCancel ==
    [][(isRunning /\ isCancelled) =>
          \/ pc' # "deleting"
          \/ pc = "deleting" /\ orphanEntries' = orphanEntries]_vars

\* C33: when cancel has been requested during a cloud backup of several
\* sources, no uploadSource call made for a source whose turn had not come
\* when it was requested creates or replaces an object in Drive.
NoUploadForRemainingSource ==
    [][\A r \in UploadIds :
          (/\ isCloudBackup
           /\ cancelledAt # 0
           /\ r > cancelledAt
           /\ uploads[r].pc = "uploading"
           /\ uploads'[r].pc # "uploading")
          => remote' = remote]_vars

\* C36: schedule:due is not emitted twice within one minute, whatever the
\* number of checks that fall into that minute.
DueOncePerMinute ==
    \A i, j \in DOMAIN due :
        i < j => due[i] \div TicksPerMinute # due[j] \div TicksPerMinute

\* C37: while the watcher is stopped no interval timer of it is alive, and
\* never more than one is.
NoTimerWhileStopped ==
    /\ ~isWatching => timers = {}
    /\ Cardinality(timers) <= 1

\* C38: a poll whose listing fails emits no event and leaves previousDrives
\* as it is; a poll whose listing succeeds emits drive:disconnected only for
\* drives that are not there and drive:connected only for drives it did not
\* hold, so a drive held before a failed poll and still there at the next
\* successful poll is not announced again.
FailedPollIsSilent ==
    [][(/\ Len(listings') > Len(listings)
        /\ listings'[Len(listings')].kind = "poll")
       => IF ~listings'[Len(listings')].ok
          THEN events' = events /\ previousDrives' = previousDrives
          ELSE /\ previousDrives' = drives
               /\ events' # events =>
                     /\ events'[Len(events')].disconnected \cap drives = {}
                     /\ events'[Len(events')].connected \cap previousDrives = {}]_vars

\* a failed poll, then a successful one, with a drive held and there, and no
\* event so far
SilentThroughFailedPoll ==
    /\ \E i \in DOMAIN listings :
          /\ i < Len(listings)
          /\ listings[i] = [kind |-> "poll", ok |-> FALSE]
          /\ listings[i + 1] = [kind |-> "poll", ok |-> TRUE]
    /\ previousDrives \cap drives # {}
    /\ events = <<>>

====
